---- MODULE Spec2Model ----
(***************************************************************************)
(* Algebraic connectivity, Fiedler vectors and spectral ordering           *)
(* (networkx/linalg/algebraic_connectivity.py).                            *)
(*                                                                         *)
(* Spec        : _preprocess_graph applied to an input graph.              *)
(* SpecAPI     : one call of an entry point on an input graph.             *)
(* SpecOrd     : spectral_ordering on graphs of several components.        *)
(* SpecPCG     : the loop of _PCGSolver.solve, run without interruption.   *)
(* SpecTracemin: the main loop of _tracemin_fiedler.                       *)
(***************************************************************************)
EXTENDS Integers, Sequences, FiniteSets, TLC

VARIABLES
    G,          \* the input graph of a call
    call,       \* the entry point called and its parameters
    result,     \* what the call returned or raised
    pcg,        \* the locals of _PCGSolver.solve and its position
    tm          \* the locals of _tracemin_fiedler and its position

vars == <<G, call, result, pcg, tm>>

(***************************************************************************)
(* Bounds of the model.                                                    *)
(***************************************************************************)
MaxNodes == 3

MaxEdges == 2

(***************************************************************************)
(* Input graphs.  Nodes are 1..n.  An edge carries the value of its        *)
(* `weight` attribute, or NoWeight when the attribute is absent.           *)
(***************************************************************************)
NoWeight == <<>>

Weights == {-3, 0, 4}

Attrs == {NoWeight} \cup {<<w>> : w \in Weights}

Abs(x) == IF x < 0 THEN -x ELSE x

Idle == [fn |-> "none"]

NoResult == [kind |-> "none"]

NoSolve == [pc |-> "none"]

NoIteration == [pc |-> "none"]

\* Rank of an attribute value, used only to enumerate edge lists once each.
AttrRank(w) == IF w = NoWeight THEN 0 ELSE IF w[1] < 0 THEN 1 ELSE IF w[1] = 0 THEN 2 ELSE 3

EdgeRank(e) == ((e.u * (MaxNodes + 2)) + e.v) * 4 + AttrRank(e.w)

KeyRank(e) == (e.u * (MaxNodes + 2)) + e.v

\* The edges a graph on nodes 1..n may hold: an undirected graph reports each
\* edge once (u <= v here), a directed graph reports ordered pairs.
EdgeUniverse(n, directed, attrs) ==
    {e \in [u : 1..n, v : 1..n, w : attrs] : directed \/ e.u <= e.v}

\* A simple graph holds at most one edge per key; a multigraph may hold
\* parallel edges.  Edge lists are enumerated once each, in rank order.
InOrder(es, multi) ==
    \A i \in 1..(Len(es) - 1) :
        IF multi THEN EdgeRank(es[i]) <= EdgeRank(es[i + 1])
                 ELSE KeyRank(es[i]) < KeyRank(es[i + 1])

\* G is an input graph with minN..maxN nodes and at most maxE edges.
IsInputGraph(minN, maxN, maxE, kinds, attrs) ==
    \E n \in minN..maxN, d \in kinds, k \in 0..maxE :
        \E es \in [1..k -> EdgeUniverse(n, d[1], attrs)] :
            /\ InOrder(es, d[2])
            /\ G = [n |-> n, directed |-> d[1], multi |-> d[2], edges |-> es]

AllKinds == BOOLEAN \X BOOLEAN

(***************************************************************************)
(* _preprocess_graph                                                       *)
(***************************************************************************)
\* e.get(weight, 1.)
GetWeight(w) == IF w = NoWeight THEN 1 ELSE w[1]

RECURSIVE SumSeq(_)
SumSeq(s) == IF Len(s) = 0 THEN 0 ELSE Head(s) + SumSeq(Tail(s))

\* Variant of NotSelfLoop: self-loops are kept.
NotSelfLoop_Kept(e) == TRUE

NotSelfLoop(e) == e.u # e.v

\* Lines 107-113: a directed graph becomes an undirected multigraph whose
\* edges carry e.get(weight, 1.); self-loops are not copied.
ToMultiGraph(g) ==
    LET kept == SelectSeq(g.edges, NotSelfLoop)
    IN  [n |-> g.n, directed |-> FALSE, multi |-> TRUE,
         edges |-> [i \in 1..Len(kept) |->
                       [u |-> kept[i].u, v |-> kept[i].v,
                        w |-> <<GetWeight(kept[i].w)>>]]]

\* Variant of Parallel: only the edges stored as (u, v), not as (v, u).
Parallel_OneDirection(g, u, v) ==
    LET joins(e) == e.u = u /\ e.v = v
    IN  SelectSeq(g.edges, joins)

\* G[u][v].values() of an undirected multigraph: every edge joining u and v.
Parallel(g, u, v) ==
    LET joins(e) == {e.u, e.v} = {u, v}
    IN  SelectSeq(g.edges, joins)

\* Lines 114-119: the (u, v, weight) triples handed to the simple graph.
CollapsedEdges(g) ==
    LET kept == SelectSeq(g.edges, NotSelfLoop)
        absw(es) == [i \in 1..Len(es) |-> Abs(GetWeight(es[i].w))]
    IN  IF ~g.multi
        THEN [i \in 1..Len(kept) |->
                 [u |-> kept[i].u, v |-> kept[i].v, w |-> absw(kept)[i]]]
        ELSE [i \in 1..Len(kept) |->
                 [u |-> kept[i].u, v |-> kept[i].v,
                  w |-> SumSeq(absw(Parallel(g, kept[i].u, kept[i].v)))]]

\* Graph.add_weighted_edges_from: a later edge of the same pair overwrites.
RECURSIVE AddWeightedEdges(_, _)
AddWeightedEdges(adj, es) ==
    IF Len(es) = 0 THEN adj
    ELSE LET e == Head(es)
             k == {e.u, e.v}
         IN  AddWeightedEdges([x \in DOMAIN adj \cup {k} |->
                                  IF x = k THEN e.w ELSE adj[x]], Tail(es))

EmptyAdj == [x \in {} |-> 0]

\* Variant of NonZero: zero-weight edges are kept.
NonZero_Kept(e) == TRUE

NonZero(e) == e.w # 0

\* Lines 120-123: the simple graph H.
preprocess_graph(g) ==
    LET g1 == IF g.directed THEN ToMultiGraph(g) ELSE g
        edges == CollapsedEdges(g1)
    IN  [nodes |-> 1..g1.n,
         adj |-> AddWeightedEdges(EmptyAdj, SelectSeq(edges, NonZero))]

(***************************************************************************)
(* Graph queries the entry points make (nx.is_connected,                   *)
(* nx.connected_components, nx.laplacian_matrix).                          *)
(***************************************************************************)
\* The nodes reachable from the nodes in `seen` over the node pairs `pairs`.
RECURSIVE Reach(_, _)
Reach(pairs, seen) ==
    LET more == seen \cup UNION {k \in pairs : k \cap seen # {}}
    IN  IF more = seen THEN seen ELSE Reach(pairs, more)

IsConnected(H) == Reach(DOMAIN H.adj, {1}) = H.nodes

Min(S) == CHOOSE x \in S : \A y \in S : x <= y

RECURSIVE SortedSeq(_)
SortedSeq(S) == IF S = {} THEN <<>> ELSE <<Min(S)>> \o SortedSeq(S \ {Min(S)})

\* The components in node order, each listing its nodes in node order.
RECURSIVE ComponentsFrom(_, _)
ComponentsFrom(pairs, left) ==
    IF left = {} THEN <<>>
    ELSE LET c == Reach(pairs, {Min(left)})
         IN  <<SortedSeq(c)>> \o ComponentsFrom(pairs, left \ c)

ConnectedComponents(H) == ComponentsFrom(DOMAIN H.adj, H.nodes)

RECURSIVE SumOver(_, _)
SumOver(S, f) ==
    IF S = {} THEN 0
    ELSE LET x == CHOOSE y \in S : TRUE IN f[x] + SumOver(S \ {x}, f)

\* L[i, i] of nx.laplacian_matrix(H): the weighted degree of node i + 1.
LaplacianDiag(H, v) == SumOver({k \in DOMAIN H.adj : v \in k}, H.adj)

(***************************************************************************)
(* Method strings.  A string is the sequence of its lexical pieces; "\n"   *)
(* is a newline character.                                                 *)
(***************************************************************************)
TraceminNames ==
    {<<"tracemin">>, <<"tracemin", "_", "pcg">>, <<"tracemin", "_", "chol">>,
     <<"tracemin", "_", "lu">>}

DocumentedMethods == TraceminNames \cup {<<"arnoldi">>}

Methods ==
    DocumentedMethods \cup
    {<<"lanczos">>, <<"tracemin", "_", "qr">>, <<"tracemin", "\n">>}

\* _tracemin_method = compile('^tracemin(?:_(.*))?$'), .match(method):
\* `$` also matches just before a newline that ends the string, and `.`
\* matches no newline.  group is <<>> for None, <<suffix>> otherwise.
tracemin_method_match(m) ==
    LET body == IF Len(m) > 0 /\ m[Len(m)] = "\n"
                THEN SubSeq(m, 1, Len(m) - 1) ELSE m
        ok == /\ Len(body) >= 1
              /\ body[1] = "tracemin"
              /\ Len(body) >= 2 => body[2] = "_"
              /\ \A i \in 1..Len(body) : body[i] # "\n"
    IN  [matched |-> ok,
         group |-> IF ok /\ Len(body) >= 2
                   THEN <<SubSeq(body, 3, Len(body))>> ELSE <<>>]

Error(e) == [kind |-> "error", error |-> e]

\* Variant of TraceminSolver: an unknown solver name falls back to pcg.
TraceminSolver_Fallback(group, avail) ==
    IF group = <<<<"chol">>>> \/ group = <<<<"lu">>>>
    THEN IF avail THEN [kind |-> "solver", solver |-> group[1][1]]
         ELSE Error("SolverUnavailable")
    ELSE [kind |-> "solver", solver |-> "pcg"]

\* Lines 166-180 of _tracemin_fiedler: the solver the group selects.  avail
\* tells whether the library of the direct solver asked for was imported
\* (_CholeskySolver._cholesky, _LUSolver._splu).
TraceminSolver(group, avail) ==
    IF group = <<>> \/ group = <<<<"pcg">>>> THEN [kind |-> "solver", solver |-> "pcg"]
    ELSE IF group = <<<<"chol">>>> \/ group = <<<<"lu">>>>
         THEN IF avail
              THEN [kind |-> "solver", solver |-> group[1][1]]
              ELSE Error("SolverUnavailable")
         ELSE Error("InvalidArgument")

Availability == BOOLEAN

\* Lines 280-293, 358-371: the eigensolver the method selects, or the error.
Dispatch(method, avail) ==
    LET match == tracemin_method_match(method)
    IN  IF match.matched
        THEN LET s == TraceminSolver(match.group, avail)
             IN  IF s.kind = "error" THEN s
                 ELSE [kind |-> "eigen", eigensolver |-> "tracemin"]
        ELSE IF method = <<"arnoldi">>
             THEN [kind |-> "eigen", eigensolver |-> "arnoldi"]
             ELSE Error("InvalidArgument")

(***************************************************************************)
(* algebraic_connectivity, fiedler_vector                                  *)
(***************************************************************************)
Value(x) == [kind |-> "value", value |-> x, eigensolver |-> "none"]

\* Variant of algebraic_connectivity: the 2-node form is L[0, 0], not 2 * L[0, 0].
algebraic_connectivity_Degree(g, normalized, method, avail) ==
    IF g.directed THEN Error("NotImplemented")
    ELSE IF g.n < 2 THEN Error("InvalidArgument")
    ELSE LET H == preprocess_graph(g)
         IN  IF ~IsConnected(H) THEN Value(0)
             ELSE IF Cardinality(H.nodes) = 2
                  THEN IF ~normalized THEN Value(LaplacianDiag(H, 1))
                       ELSE Value(2)
                  ELSE LET d == Dispatch(method, avail)
                       IN  IF d.kind = "error" THEN d
                           ELSE [kind |-> "eigenvalue",
                                 eigensolver |-> d.eigensolver]

algebraic_connectivity(g, normalized, method, avail) ==
    IF g.directed THEN Error("NotImplemented")
    ELSE IF g.n < 2 THEN Error("InvalidArgument")
    ELSE LET H == preprocess_graph(g)
         IN  IF ~IsConnected(H) THEN Value(0)
             ELSE IF Cardinality(H.nodes) = 2
                  THEN IF ~normalized THEN Value(2 * LaplacianDiag(H, 1))
                       ELSE Value(2)
                  ELSE LET d == Dispatch(method, avail)
                       IN  IF d.kind = "error" THEN d
                           ELSE [kind |-> "eigenvalue",
                                 eigensolver |-> d.eigensolver]

\* Variant of fiedler_vector: the 2-node return precedes the connectivity test.
fiedler_vector_SizeFirst(g, normalized, method, avail) ==
    IF g.directed THEN Error("NotImplemented")
    ELSE IF g.n < 2 THEN Error("InvalidArgument")
    ELSE LET H == preprocess_graph(g)
         IN  IF Cardinality(H.nodes) = 2
             THEN [kind |-> "vector", vector |-> <<1, -1>>, eigensolver |-> "none"]
             ELSE IF ~IsConnected(H) THEN Error("NotConnected")
                  ELSE LET d == Dispatch(method, avail)
                       IN  IF d.kind = "error" THEN d
                           ELSE [kind |-> "eigenvector",
                                 eigensolver |-> d.eigensolver]

fiedler_vector(g, normalized, method, avail) ==
    IF g.directed THEN Error("NotImplemented")
    ELSE IF g.n < 2 THEN Error("InvalidArgument")
    ELSE LET H == preprocess_graph(g)
         IN  IF ~IsConnected(H) THEN Error("NotConnected")
             ELSE IF Cardinality(H.nodes) = 2
                  THEN [kind |-> "vector", vector |-> <<1, -1>>,
                        eigensolver |-> "none"]
                  ELSE LET d == Dispatch(method, avail)
                       IN  IF d.kind = "error" THEN d
                           ELSE [kind |-> "eigenvector",
                                 eigensolver |-> d.eigensolver]

(***************************************************************************)
(* spectral_ordering                                                       *)
(***************************************************************************)
FiedlerVals == {0, 1}

\* sorted(zip(fiedler, range(size), component)): ascending by Fiedler value,
\* then by index within the component.  `left` holds the indices not yet
\* emitted; fv maps a node to its entry of the component's Fiedler vector.
Before(component, fv, i, j) ==
    \/ fv[component[i]] < fv[component[j]]
    \/ fv[component[i]] = fv[component[j]] /\ i <= j

\* Variant of SortedByFiedler: the component is emitted unsorted.
SortedByFiedler_Unsorted(component, fv, left) == component

RECURSIVE SortedByFiedler(_, _, _)
SortedByFiedler(component, fv, left) ==
    IF left = {} THEN <<>>
    ELSE LET i == CHOOSE x \in left : \A y \in left : Before(component, fv, x, y)
         IN  <<component[i]>> \o SortedByFiedler(component, fv, left \ {i})

\* Lines 444-455: the loop over the components.  find is what find_fiedler
\* does when called: an error it raises, or a vector (taken from fv).
RECURSIVE OrderComponents(_, _, _, _)
OrderComponents(components, order, find, fv) ==
    IF Len(components) = 0
    THEN [kind |-> "order", order |-> order, fiedler |-> fv]
    ELSE LET component == Head(components)
             size == Len(component)
         IN  IF size > 2
             THEN IF find.kind = "error" THEN find
                  ELSE OrderComponents(
                           Tail(components),
                           order \o SortedByFiedler(component, fv, 1..size),
                           find, fv)
             ELSE OrderComponents(Tail(components), order \o component, find, fv)

spectral_ordering(g, normalized, method, avail, fv) ==
    IF g.n = 0 THEN Error("InvalidArgument")
    ELSE LET H == preprocess_graph(g)
             match == tracemin_method_match(method)
             find == IF match.matched THEN TraceminSolver(match.group, avail)
                     ELSE [kind |-> "solver", solver |-> "eigsh"]
         IN  IF ~match.matched /\ method # <<"arnoldi">>
             THEN Error("InvalidArgument")
             ELSE OrderComponents(ConnectedComponents(H), <<>>, find, fv)

\* The Fiedler vectors the eigensolver may return for the components of more
\* than 2 nodes of g (0 stands at the nodes of the other components).
FiedlerVectors(g) ==
    LET comps == ConnectedComponents(preprocess_graph(g))
        big == UNION {{comps[i][j] : j \in 1..Len(comps[i])} :
                         i \in {x \in 1..Len(comps) : Len(comps[x]) > 2}}
    IN  {fv \in [1..g.n -> FiedlerVals] : \A v \in 1..g.n : v \notin big => fv[v] = 0}

(***************************************************************************)
(* Specification: _preprocess_graph applied to an input graph.             *)
(***************************************************************************)
Init ==
    /\ IsInputGraph(0, MaxNodes, MaxEdges, AllKinds, Attrs)
    /\ call = Idle
    /\ result = NoResult
    /\ pcg = NoSolve
    /\ tm = NoIteration

Preprocess ==
    /\ call = Idle
    /\ call' = [fn |-> "_preprocess_graph"]
    /\ result' = [kind |-> "graph", H |-> preprocess_graph(G)]
    /\ UNCHANGED <<G, pcg, tm>>

Next == Preprocess

Spec == Init /\ [][Next]_vars

(***************************************************************************)
(* Specification: one call of an entry point on an input graph.            *)
(***************************************************************************)
ApiAttrs == {<<-3>>, <<0>>, <<4>>}

MaxDirectedEdges == 1

Undirected == {<<FALSE, FALSE>>, <<FALSE, TRUE>>}

Directed == {<<TRUE, FALSE>>}

InitAPI ==
    /\ \/ IsInputGraph(0, MaxNodes, MaxEdges, Undirected, ApiAttrs)
       \/ IsInputGraph(0, MaxNodes, MaxDirectedEdges, Directed, ApiAttrs)
    /\ call = Idle
    /\ result = NoResult
    /\ pcg = NoSolve
    /\ tm = NoIteration

AlgebraicConnectivity ==
    /\ call = Idle
    /\ \E normalized \in BOOLEAN, method \in Methods, avail \in Availability :
           /\ call' = [fn |-> "algebraic_connectivity",
                       normalized |-> normalized, method |-> method]
           /\ result' = algebraic_connectivity(G, normalized, method, avail)
    /\ UNCHANGED <<G, pcg, tm>>

FiedlerVector ==
    /\ call = Idle
    /\ \E normalized \in BOOLEAN, method \in Methods, avail \in Availability :
           /\ call' = [fn |-> "fiedler_vector",
                       normalized |-> normalized, method |-> method]
           /\ result' = fiedler_vector(G, normalized, method, avail)
    /\ UNCHANGED <<G, pcg, tm>>

SpectralOrdering ==
    /\ call = Idle
    /\ \E normalized \in BOOLEAN, method \in Methods, avail \in Availability,
          fv \in FiedlerVectors(G) :
           /\ call' = [fn |-> "spectral_ordering",
                       normalized |-> normalized, method |-> method]
           /\ result' = spectral_ordering(G, normalized, method, avail, fv)
    /\ UNCHANGED <<G, pcg, tm>>

NextAPI == AlgebraicConnectivity \/ FiedlerVector \/ SpectralOrdering

SpecAPI == InitAPI /\ [][NextAPI]_vars

(***************************************************************************)
(* Specification: spectral_ordering on graphs of several components.       *)
(***************************************************************************)
OrdNodes == 4

OrdAttrs == {<<0>>, <<4>>}

InitOrd ==
    /\ \/ IsInputGraph(0, OrdNodes, MaxEdges, {<<FALSE, FALSE>>}, OrdAttrs)
       \/ IsInputGraph(0, OrdNodes, MaxDirectedEdges, Directed, OrdAttrs)
    /\ call = Idle
    /\ result = NoResult
    /\ pcg = NoSolve
    /\ tm = NoIteration

NextOrd == SpectralOrdering

SpecOrd == InitOrd /\ [][NextOrd]_vars

(***************************************************************************)
(* Floating-point values: <<n, d>> with d > 0 is the number n/d in lowest  *)
(* terms, <<1, 0>> and <<-1, 0>> are +inf and -inf, <<0, 0>> is nan.       *)
(***************************************************************************)
RECURSIVE Gcd(_, _)
Gcd(a, b) == IF b = 0 THEN a ELSE Gcd(b, a % b)

Sign(x) == IF x > 0 THEN 1 ELSE IF x < 0 THEN -1 ELSE 0

Float(n, d) ==
    IF d = 0 THEN <<Sign(n), 0>>
    ELSE LET g == Gcd(Abs(n), Abs(d))
         IN  <<(Sign(d) * n) \div g, Abs(d) \div g>>

Floats == Int \X Int

NaN == <<0, 0>>

Zero == <<0, 1>>

FAdd[a \in Floats, b \in Floats] ==
    IF a = NaN \/ b = NaN THEN NaN
    ELSE IF a[2] = 0 /\ b[2] = 0 THEN (IF a = b THEN a ELSE NaN)
    ELSE Float(a[1] * b[2] + b[1] * a[2], a[2] * b[2])

FSub[a \in Floats, b \in Floats] == FAdd[a, <<-b[1], b[2]>>]

FMul[a \in Floats, b \in Floats] == Float(a[1] * b[1], a[2] * b[2])

\* x / 0 is +-inf with the sign of x, 0 / 0 is nan.
FDiv[a \in Floats, b \in Floats] ==
    Float(a[1] * b[2] * (IF b[1] < 0 THEN -1 ELSE 1), a[2] * Abs(b[1]))

FAbs[a \in Floats] == <<Abs(a[1]), a[2]>>

\* a < b; False when either is nan.
FLt[a \in Floats, b \in Floats] ==
    /\ a # NaN
    /\ b # NaN
    /\ IF a[2] = 0 /\ b[2] = 0 THEN a[1] < b[1]
       ELSE a[1] * b[2] < b[1] * a[2]

FSum[s \in Seq(Floats)] ==
    IF Len(s) = 0 THEN Zero ELSE FAdd[Head(s), FSum[Tail(s)]]

Dot(u, v) == FSum[[i \in 1..Len(u) |-> FMul[u[i], v[i]]]]

Norm1(v) == FSum[[i \in 1..Len(v) |-> FAbs[v[i]]]]

Scale(c, v) == [i \in 1..Len(v) |-> FMul[c, v[i]]]

VAdd(u, v) == [i \in 1..Len(u) |-> FAdd[u[i], v[i]]]

VSub(u, v) == [i \in 1..Len(u) |-> FSub[u[i], v[i]]]

\* nx.laplacian_matrix(H): a sparse matrix; row i lists its stored entries.
Laplacian(H) ==
    [i \in H.nodes |->
        [j \in {i} \cup {x \in H.nodes : {i, x} \in DOMAIN H.adj} |->
            IF j = i THEN LaplacianDiag(H, i) ELSE -H.adj[{i, j}]]]

\* A * p for a sparse A: only the stored entries take part.
RECURSIVE RowDot(_, _, _)
RowDot(row, p, cols) ==
    IF cols = {} THEN Zero
    ELSE LET j == Min(cols)
         IN  FAdd[FMul[<<row[j], 1>>, p[j]], RowDot(row, p, cols \ {j})]

MatVec(A, p) == [i \in DOMAIN A |-> RowDot(A[i], p, DOMAIN A[i])]

\* M = (1. / L.diagonal()).__mul__  (line 167)
Jacobi(A, r) == [i \in DOMAIN A |-> FMul[FDiv[<<1, 1>>, <<A[i][i], 1>>], r[i]]]

(***************************************************************************)
(* _PCGSolver.solve                                                        *)
(***************************************************************************)
\* Lines 41-49.
PCGStart ==
    /\ pcg.pc = "start"
    /\ LET z == Jacobi(pcg.A, pcg.b)
       IN  pcg' = [pcg EXCEPT !.pc = "L52",
                              !.tol = FMul[pcg.tol0, Norm1(pcg.b)],
                              !.x = [i \in DOMAIN pcg.b |-> Zero],
                              !.r = pcg.b,
                              !.rz = Dot(pcg.b, z),
                              !.p = z]
    /\ UNCHANGED <<G, call, result, tm>>

\* Lines 52-55.
PCGStep ==
    /\ pcg.pc = "L52"
    /\ LET Ap == MatVec(pcg.A, pcg.p)
           alpha == FDiv[pcg.rz, Dot(pcg.p, Ap)]
       IN  pcg' = [pcg EXCEPT !.pc = "L56",
                              !.x = VAdd(pcg.x, Scale(alpha, pcg.p)),
                              !.r = VSub(pcg.r, Scale(alpha, Ap))]
    /\ UNCHANGED <<G, call, result, tm>>

\* Lines 56-57.
PCGTest ==
    /\ pcg.pc = "L56"
    /\ pcg' = [pcg EXCEPT !.pc = IF FLt[Norm1(pcg.r), pcg.tol]
                                 THEN "returned" ELSE "L58"]
    /\ UNCHANGED <<G, call, result, tm>>

\* Lines 58-62.
PCGUpdate ==
    /\ pcg.pc = "L58"
    /\ LET z == Jacobi(pcg.A, pcg.r)
           beta == Dot(pcg.r, z)
       IN  pcg' = [pcg EXCEPT !.pc = "L52",
                              !.rz = beta,
                              !.p = VAdd(Scale(FDiv[beta, pcg.rz], pcg.p), z)]
    /\ UNCHANGED <<G, call, result, tm>>

NextPCG == PCGStart \/ PCGStep \/ PCGTest \/ PCGUpdate

\* The systems solved: the Laplacian of a connected graph, a right-hand side
\* orthogonal to its null space (as the columns the eigensolver passes, and
\* b = 0), the tolerance the solver was built with.
NoGraph == [n |-> 0, directed |-> FALSE, multi |-> FALSE, edges |-> <<>>]

Path(w1, w2) ==
    [nodes |-> 1..3, adj |-> [k \in {{1, 2}, {2, 3}} |-> IF k = {1, 2} THEN w1 ELSE w2]]

Triangle == [nodes |-> 1..3, adj |-> [k \in {{1, 2}, {2, 3}, {1, 3}} |-> 1]]

PcgGraphs == {Path(1, 1), Path(1, 2), Triangle}

RhsVals == {-1, 0, 1}

PcgTols == {<<1, 10>>, <<1, 1000>>}

InitPCG ==
    /\ G = NoGraph
    /\ call = Idle
    /\ result = NoResult
    /\ tm = NoIteration
    /\ \E H \in PcgGraphs, t \in PcgTols :
       \E b \in {c \in [H.nodes -> RhsVals] : SumOver(H.nodes, c) = 0} :
           pcg = [pc |-> "start", A |-> Laplacian(H), tol0 |-> t,
                  b |-> [i \in H.nodes |-> <<b[i], 1>>],
                  tol |-> Zero, x |-> [i \in H.nodes |-> Zero],
                  r |-> [i \in H.nodes |-> Zero], rz |-> Zero,
                  p |-> [i \in H.nodes |-> Zero]]

\* solve runs to its end without being suspended.
SpecPCG == InitPCG /\ [][NextPCG]_vars /\ WF_vars(NextPCG)

(***************************************************************************)
(* _tracemin_fiedler: the order of its steps and the blocks they read and  *)
(* write.  A block is named by the step that produced it and the pass of   *)
(* the main loop it was produced in: X is assigned at lines 187-188        *)
(* ("random"), 205 ("ritz": V * Y) and 216 ("schur": W * N).               *)
(***************************************************************************)
MaxPasses == 3

Block(kind, pass) == [kind |-> kind, pass |-> pass]

NoBlock == Block("unset", 0)

\* Variant of ConvergenceTested: the test is made in every pass.
ConvergenceTested_Always(first) == TRUE

\* Line 198: `if not first`.
ConvergenceTested(first) == ~first

\* The steps taken so far, in order.
Log(t, step) == Append(t.trace, step)

\* Lines 129-189: the solver is built, X is drawn at random and projected.
TMSetup ==
    /\ tm.pc = "start"
    /\ LET s == TraceminSolver(tm.group, tm.avail)
       IN  tm' = IF s.kind = "error"
                 THEN [tm EXCEPT !.pc = "raised"]
                 ELSE [tm EXCEPT !.pc = "L193", !.solver = s.solver,
                                 !.X = Block("random", 0), !.first = TRUE,
                                 !.pass = 1]
    /\ UNCHANGED <<G, call, result, pcg>>

\* Line 193: V = gram_schmidt(X).
TMOrthonormalize ==
    /\ tm.pc = "L193"
    /\ tm' = [tm EXCEPT !.pc = "L195", !.V = [of |-> tm.X, pass |-> tm.pass],
                        !.trace = Log(tm, "gram_schmidt")]
    /\ UNCHANGED <<G, call, result, pcg>>

\* Lines 195-196: H = V' * (L * V); sigma, Y = eigh(H).
TMRayleighRitz ==
    /\ tm.pc = "L195"
    /\ tm' = [tm EXCEPT !.pc = "L198", !.sigma = Block("eigh", tm.pass),
                        !.Y = Block("eigh", tm.pass),
                        !.trace = Log(tm, "eigh")]
    /\ UNCHANGED <<G, call, result, pcg>>

\* Lines 198-203: the convergence test.  The residual
\* r = L * X[:, 0] - sigma[0] * X[:, 0] reads the current X and sigma; whether
\* its norm is below tol * Lnorm is for the numbers to decide.  On
\* convergence the loop is left and line 218 returns sigma and X.
TMTest ==
    /\ tm.pc = "L198"
    /\ IF ConvergenceTested(tm.first)
       THEN \E converged \in BOOLEAN :
                tm' = [tm EXCEPT !.pc = IF converged THEN "returned" ELSE "L205",
                                 !.residual = [X |-> tm.X, sigma |-> tm.sigma],
                                 !.trace = Log(tm, "test")]
       ELSE tm' = [tm EXCEPT !.pc = "L205", !.first = FALSE]
    /\ UNCHANGED <<G, call, result, pcg>>

\* Line 205: X = V * Y.
TMRitz ==
    /\ tm.pc = "L205"
    /\ tm' = [tm EXCEPT !.pc = "L209", !.X = Block("ritz", tm.Y.pass), !.j = 0,
                        !.trace = Log(tm, "ritz")]
    /\ UNCHANGED <<G, call, result, pcg>>

\* Lines 207-212: W[:, j] = solver.solve(X[:, j]), or with D on both sides.
TMSolve ==
    /\ tm.pc = "L209"
    /\ tm.j < 2
    /\ tm' = [tm EXCEPT !.W[tm.j + 1] = [rhs |-> tm.X, scaled |-> tm.normalized,
                                         projected |-> FALSE],
                        !.j = tm.j + 1,
                        !.pc = IF tm.j + 1 = 2 THEN "L213" ELSE "L209",
                        !.trace = Log(tm, "solve")]
    /\ UNCHANGED <<G, call, result, pcg>>

\* Line 213: project(W).
TMProject ==
    /\ tm.pc = "L213"
    /\ tm' = [tm EXCEPT !.pc = "L214",
                        !.W = [c \in 1..2 |-> [tm.W[c] EXCEPT !.projected = TRUE]],
                        !.trace = Log(tm, "project")]
    /\ UNCHANGED <<G, call, result, pcg>>

\* Lines 214-216: S = X' * W; N = solve(S, X' * X); X = W * N; the loop
\* starts over.
TMSchur ==
    /\ tm.pc = "L214"
    /\ tm.pass < MaxPasses
    /\ tm' = [tm EXCEPT !.pc = "L193", !.X = Block("schur", tm.pass),
                        !.pass = tm.pass + 1,
                        !.trace = Log(tm, "schur")]
    /\ UNCHANGED <<G, call, result, pcg>>

NextTracemin ==
    \/ TMSetup
    \/ TMOrthonormalize
    \/ TMRayleighRitz
    \/ TMTest
    \/ TMRitz
    \/ TMSolve
    \/ TMProject
    \/ TMSchur

Groups == {<<>>, <<<<"pcg">>>>, <<<<"chol">>>>, <<<<"lu">>>>, <<<<"qr">>>>}

NoColumn == [rhs |-> NoBlock, scaled |-> FALSE, projected |-> FALSE]

InitTracemin ==
    /\ G = NoGraph
    /\ call = Idle
    /\ result = NoResult
    /\ pcg = NoSolve
    /\ \E group \in Groups, avail \in Availability, normalized \in BOOLEAN :
           tm = [pc |-> "start", group |-> group, avail |-> avail,
                 normalized |-> normalized, solver |-> "none", first |-> TRUE,
                 pass |-> 0, j |-> 0, X |-> NoBlock,
                 V |-> [of |-> NoBlock, pass |-> 0], sigma |-> NoBlock,
                 Y |-> NoBlock, W |-> <<NoColumn, NoColumn>>,
                 residual |-> [X |-> NoBlock, sigma |-> NoBlock],
                 trace |-> <<>>]

SpecTracemin == InitTracemin /\ [][NextTracemin]_vars

(***************************************************************************)
(* Properties.                                                             *)
(***************************************************************************)
Edges(g) == {g.edges[i] : i \in 1..Len(g.edges)}

\* The node pairs that stay joined: some edge between two distinct nodes has
\* a nonzero weight (a missing weight counts as 1).
SurvivingPairs(g) ==
    {{e.u, e.v} : e \in {x \in Edges(g) : x.u # x.v /\ (x.w = NoWeight \/ x.w # <<0>>)}}

ComponentOf(g, v) == Reach(SurvivingPairs(g), {v})

Disconnected(g) == ComponentOf(g, 1) # 1..g.n

\* The sum of |weight| over the input edges between u and v, either way.
RECURSIVE PairSum(_, _, _, _)
PairSum(g, u, v, i) ==
    IF i > Len(g.edges) THEN 0
    ELSE LET e == g.edges[i]
             w == IF e.w = NoWeight THEN 1 ELSE IF e.w[1] < 0 THEN -e.w[1] ELSE e.w[1]
         IN  (IF {e.u, e.v} = {u, v} THEN w ELSE 0) + PairSum(g, u, v, i + 1)

\* C6: the graph _preprocess_graph returns has exactly the input's nodes, no
\* self-loop, edges only between two distinct nodes of the graph, and every
\* edge weight strictly positive.
C6_PreprocessedIsSimple ==
    call.fn = "_preprocess_graph" =>
        /\ result.H.nodes = 1..G.n
        /\ \A k \in DOMAIN result.H.adj :
               /\ k \subseteq result.H.nodes
               /\ Cardinality(k) = 2
               /\ result.H.adj[k] > 0

C6_Witness ==
    /\ call.fn = "_preprocess_graph"
    /\ G.n = 3
    /\ G.directed
    /\ \E e \in Edges(G) : e.u = e.v
    /\ \E e \in Edges(G) : e.u # e.v /\ e.w = <<-3>>
    /\ Cardinality(DOMAIN result.H.adj) = 1

\* C7: for every pair of distinct nodes u, v the weight of the edge u-v in
\* the output of _preprocess_graph is the sum of the absolute weights (1 when
\* absent) of all input edges between u and v, parallel edges and both
\* directions counted; the edge is absent exactly when that sum is 0.
C7_WeightIsSumOfAbs ==
    call.fn = "_preprocess_graph" =>
        \A u \in 1..G.n, v \in 1..G.n :
            u < v =>
                /\ ({u, v} \in DOMAIN result.H.adj) <=> (PairSum(G, u, v, 1) # 0)
                /\ {u, v} \in DOMAIN result.H.adj =>
                       result.H.adj[{u, v}] = PairSum(G, u, v, 1)

C7_Witness ==
    /\ call.fn = "_preprocess_graph"
    /\ G.directed
    /\ G.edges = <<[u |-> 1, v |-> 2, w |-> <<-3>>], [u |-> 2, v |-> 1, w |-> <<4>>]>>
    /\ result.H.adj[{1, 2}] = 7

EntryPoints == {"algebraic_connectivity", "fiedler_vector", "spectral_ordering"}

\* An undirected graph of at least 2 nodes: what algebraic_connectivity and
\* fiedler_vector accept.
Accepted(g) == ~g.directed /\ g.n >= 2

\* C1: on an undirected graph of at least 2 nodes whose preprocessed form is
\* disconnected, algebraic_connectivity returns exactly 0 and raises nothing,
\* whatever normalized and method are.
C1_DisconnectedGivesZero ==
    (call.fn = "algebraic_connectivity" /\ Accepted(G) /\ Disconnected(G)) =>
        (result.kind = "value" /\ result.value = 0)

C1_Witness ==
    /\ call.fn = "algebraic_connectivity"
    /\ call.normalized
    /\ G.n = 2
    /\ ~G.directed
    /\ Len(G.edges) = 2
    /\ \A e \in Edges(G) : {e.u, e.v} = {1, 2} /\ e.w = <<0>>
    /\ result.kind = "value"
    /\ result.value = 0

\* A 2-node undirected graph whose single edge joins the two nodes.
SingleEdge(g) ==
    /\ g.n = 2
    /\ ~g.directed
    /\ Len(g.edges) = 1
    /\ {g.edges[1].u, g.edges[1].v} = {1, 2}

\* C2 as stated: on a 2-node graph with a single edge of weight w,
\* algebraic_connectivity returns 2w (normalized false) or 2 (normalized
\* true) regardless of w, without the eigensolver.
C2_AsStated ==
    (call.fn = "algebraic_connectivity" /\ SingleEdge(G)) =>
        /\ result.kind = "value"
        /\ result.eigensolver = "none"
        /\ result.value = IF call.normalized THEN 2 ELSE 2 * G.edges[1].w[1]

\* C2 as amended: it returns 0 when w = 0, and otherwise 2|w| (normalized
\* false) or 2 (normalized true); the eigensolver is never invoked.
C2_TwoNodeClosedForm ==
    (call.fn = "algebraic_connectivity" /\ SingleEdge(G)) =>
        /\ result.kind = "value"
        /\ result.eigensolver = "none"
        /\ result.value = IF G.edges[1].w[1] = 0 THEN 0
                          ELSE IF call.normalized THEN 2
                          ELSE 2 * Abs(G.edges[1].w[1])

C2_Witness ==
    /\ call.fn = "algebraic_connectivity"
    /\ SingleEdge(G)
    /\ G.edges[1].w = <<-3>>
    /\ ~call.normalized
    /\ result.kind = "value"
    /\ result.value = 6

\* The method strings the interface documents, and those strings followed by
\* one newline that the method pattern takes for a tracemin name.
Unrecognized(m) == m \notin DocumentedMethods

Rejected(m) ==
    /\ m \notin DocumentedMethods
    /\ m \notin {Append(t, "\n") : t \in TraceminNames}

\* The form tracemin_<solver> (the method pattern matches).
TraceminForm(m) == tracemin_method_match(m).matched

HasLargeComponent(g) == \E v \in 1..g.n : Cardinality(ComponentOf(g, v)) > 2

\* C3 as stated: whatever the graph, a call of an entry point with a method
\* string outside the documented five fails with InvalidArgument.
C3_AsStated ==
    (/\ call.fn \in EntryPoints
     /\ Unrecognized(call.method)
     /\ IF call.fn = "spectral_ordering" THEN G.n >= 1 ELSE Accepted(G)) =>
        result = Error("InvalidArgument")

\* C3 as amended: with a method string that is neither documented nor a
\* tracemin name followed by one newline, algebraic_connectivity and
\* fiedler_vector fail with InvalidArgument exactly when the preprocessed
\* graph is connected and has more than 2 nodes; spectral_ordering fails
\* with InvalidArgument exactly when the string has not the form
\* tracemin_<solver> or some component has more than 2 nodes.
C3_UnknownMethodAtDispatch ==
    (/\ call.fn \in EntryPoints
     /\ Rejected(call.method)
     /\ IF call.fn = "spectral_ordering" THEN G.n >= 1 ELSE Accepted(G)) =>
        ((result = Error("InvalidArgument")) <=>
            IF call.fn = "spectral_ordering"
            THEN ~TraceminForm(call.method) \/ HasLargeComponent(G)
            ELSE ~Disconnected(G) /\ G.n > 2)

C3_Witness ==
    /\ call.fn = "algebraic_connectivity"
    /\ call.method = <<"tracemin", "_", "qr">>
    /\ G.n = 3
    /\ ~G.directed
    /\ ~Disconnected(G)
    /\ result = Error("InvalidArgument")

\* C4: on an undirected graph of at least 2 nodes whose preprocessed form is
\* disconnected, fiedler_vector fails with NotConnected for every method and
\* normalized, and algebraic_connectivity on the same graph returns 0.
C4_DisconnectedFiedlerFails ==
    (call.fn = "fiedler_vector" /\ Accepted(G) /\ Disconnected(G)) =>
        /\ result = Error("NotConnected")
        /\ \A avail \in Availability :
               algebraic_connectivity(G, call.normalized, call.method, avail).kind = "value"
        /\ \A avail \in Availability :
               algebraic_connectivity(G, call.normalized, call.method, avail).value = 0

C4_Witness ==
    /\ call.fn = "fiedler_vector"
    /\ G.n = 2
    /\ ~G.directed
    /\ Len(G.edges) = 1
    /\ G.edges[1] = [u |-> 1, v |-> 2, w |-> <<0>>]
    /\ call.method = <<"lanczos">>
    /\ result = Error("NotConnected")

\* The index of node v within its component.
IndexIn(g, v) == Cardinality({x \in ComponentOf(g, v) : x < v})

\* C5: what spectral_ordering returns is a permutation of all nodes, the
\* nodes of a component of the preprocessed graph form one contiguous block,
\* and the nodes of a component of more than 2 nodes appear in ascending
\* order of (Fiedler value, index within the component); it returns for
\* every non-empty graph when the method needs no direct solver.
C5_OrderingIsSortedPermutation ==
    call.fn = "spectral_ordering" =>
        /\ (G.n >= 1 /\ call.method \in {<<"tracemin">>, <<"tracemin", "_", "pcg">>,
                                         <<"arnoldi">>}) => result.kind = "order"
        /\ result.kind = "order" =>
            LET order == result.order
                fv == result.fiedler
                pos == 1..Len(order)
            IN  /\ Len(order) = G.n
                /\ {order[i] : i \in pos} = 1..G.n
                /\ \A i \in pos, j \in pos, k \in pos :
                       (i < j /\ j < k /\ order[k] \in ComponentOf(G, order[i]))
                           => order[j] \in ComponentOf(G, order[i])
                /\ \A i \in pos, j \in pos :
                       (/\ i < j
                        /\ order[j] \in ComponentOf(G, order[i])
                        /\ Cardinality(ComponentOf(G, order[i])) > 2)
                           => \/ fv[order[i]] < fv[order[j]]
                              \/ /\ fv[order[i]] = fv[order[j]]
                                 /\ IndexIn(G, order[i]) < IndexIn(G, order[j])

C5_Witness ==
    /\ call.fn = "spectral_ordering"
    /\ result.kind = "order"
    /\ G.n = 4
    /\ ComponentOf(G, 1) = {1, 2, 4}
    /\ result.fiedler = <<1, 0, 0, 0>>
    /\ result.order = <<2, 4, 1, 3>>

\* C8: every call of _PCGSolver.solve ends: it returns x once the 1-norm of
\* the residual is below tol times the 1-norm of b, or it stops with a
\* non-convergence failure after a bounded number of iterations.
C8_SolveEnds == <>(pcg.pc = "returned" \/ pcg.pc = "failed")

FirstPass ==
    <<"gram_schmidt", "eigh", "ritz", "solve", "solve", "project", "schur",
      "gram_schmidt", "eigh", "test">>

\* C9: the convergence test is not evaluated in the first pass: when the
\* eigensolver returns, its steps began with orthonormalization, projection,
\* Ritz vectors, the solves of both columns, deflation of W and the Schur
\* -complement correction, then a second orthonormalization and projection,
\* and only then the first test.
C9_NoTestInFirstPass ==
    /\ tm.pass = 1 => \A i \in 1..Len(tm.trace) : tm.trace[i] # "test"
    /\ tm.pc = "returned" =>
           /\ Len(tm.trace) >= Len(FirstPass)
           /\ SubSeq(tm.trace, 1, Len(FirstPass)) = FirstPass
           /\ tm.W[1].projected /\ tm.W[2].projected

C9_Witness ==
    /\ tm.pc = "returned"
    /\ tm.pass = 2
    /\ tm.trace = FirstPass

\* C10: the residual of the convergence test is computed on, and the
\* function returns, the Ritz vectors X = V * Y of the pass the eigenvalues
\* sigma belong to.
C10_ReturnsRitzVectors ==
    tm.pc = "returned" =>
        /\ tm.residual.X = Block("ritz", tm.residual.sigma.pass)
        /\ tm.X = Block("ritz", tm.sigma.pass)

====
